---- MODULE Spec2Model ----
(***************************************************************************)
(* Model of EasyDataCharts' plot grid manager (MplCanvas.py): the figure   *)
(* with its list of axes, the GridSpec in force, and the ordered           *)
(* dictionary of named plots.                                              *)
(*                                                                         *)
(* A DataFrame is modelled by the sequence of its column names: the        *)
(* operations only ever select columns by name, so a series is identified  *)
(* by the names of its X and Y columns.  Sequences are 1-based; Python     *)
(* indices (0-based) are written idx and accessed as s[idx + 1].           *)
(*                                                                         *)
(* matplotlib behaviour relied on: Figure.add_subplot(spec) always creates *)
(* a new Axes and appends it to Figure.get_axes(), which lists the axes in *)
(* creation order; GridSpec[k] is the cell with flat index k, and          *)
(* GridSpec[row, col] the cell with flat index row * ncols + col.          *)
(***************************************************************************)
EXTENDS Integers, Sequences, FiniteSets, TLC

VARIABLES
    gs,         \* self.gs: the current GridSpec, [nrows, ncols]
    axes,       \* self.fig.get_axes(): the axes of the figure, in creation order
    plots,      \* self.plots: ordered dict name -> DataHolder, as a sequence of entries
    last        \* the call that ended last: its operation and its outcome

vars == <<gs, axes, plots, last>>

\* ------------------------------------------------------------------ bounds
MaxAxes == 3        \* Spec: add_plot is called at most this many times
MaxGrowAxes == 5    \* SpecGrow: add_plot is called at most this many times
MaxRenderAxes == 1  \* SpecRender: add_plot is called at most this many times
MaxCols == 4        \* SpecRender: tables have 0..MaxCols columns
MaxFormatAxes == 2  \* SpecFormat: add_plot is called at most this many times
MaxWindowAxes == 2  \* SpecWindow: add_plot is called at most this many times

\* ------------------------------------------------------------------ inputs
ColNames == <<"A", "B", "C", "D", "E", "F">>
Tables == {SubSeq(ColNames, 1, n) : n \in 0..MaxCols}
GridTables == {<<"A">>, <<"A", "B">>}
PlotNames == <<"p1", "p2", "p3", "p4", "p5", "p6", "p7", "p8">>
Types == {0, 1}         \* 0: line plot, 1: scatter plot
GridTypes == {0}

\* ------------------------------------------------------------------ plots (dict)
Keys == {plots[i].name : i \in 1..Len(plots)}

IndexOf(name) == CHOOSE i \in 1..Len(plots) : plots[i].name = name

\* DataHolder.__init__, as the dict entry stored under name
DataHolder(name, ax, data, paired, type) ==
    [name |-> name, ax |-> ax, data |-> data, paired |-> paired, type |-> type]

\* self.plots[name] = holder: an existing key keeps its position in the dict
SetItem(d, holder) ==
    IF \E i \in 1..Len(d) : d[i].name = holder.name
    THEN [i \in 1..Len(d) |-> IF d[i].name = holder.name THEN holder ELSE d[i]]
    ELSE Append(d, holder)

\* ------------------------------------------------------------------ axes
\* fig.add_subplot(g[num]): a fresh, empty Axes placed at cell num of GridSpec g
NewAx(g, num) ==
    [num |-> num, nrows |-> g.nrows, ncols |-> g.ncols, lines |-> <<>>,
     title |-> "", xlabel |-> "", ylabel |-> "", legend |-> FALSE, grid |-> FALSE]

\* ax.cla(): drops the artists and the formatting, keeps the position
Cla(ax) ==
    [ax EXCEPT !.lines = <<>>, !.title = "", !.xlabel = "", !.ylabel = "",
               !.legend = FALSE, !.grid = FALSE]

\* SetSubplotSpec leaving the axes where it was, in the GridSpec it was in
SetSubplotSpecKeep(ax, g, row, col) == ax

\* SetSubplotSpec with the cell counted down the columns instead of along the rows
SetSubplotSpecColumnMajor(ax, g, row, col) ==
    [ax EXCEPT !.num = col * g.nrows + row, !.nrows = g.nrows, !.ncols = g.ncols]

\* ax.set_subplotspec(g[row, col])
SetSubplotSpec(ax, g, row, col) ==
    [ax EXCEPT !.num = row * g.ncols + col, !.nrows = g.nrows, !.ncols = g.ncols]

\* grid position of an axes within its own GridSpec
RowOf(ax) == ax.num \div ax.ncols
ColOf(ax) == ax.num % ax.ncols

\* ------------------------------------------------------------------ rendering
Label(x, y) == x \o " vs " \o y

\* ax.plot(..., marker='o') for type 0, ax.scatter(..., alpha=0.7) for type 1
Series(x, y, type) ==
    IF type = 0 THEN <<[x |-> x, y |-> y, label |-> Label(x, y), kind |-> "line"]>>
    ELSE IF type = 1 THEN <<[x |-> x, y |-> y, label |-> Label(x, y), kind |-> "scatter"]>>
    ELSE <<>>

\* range(0, n, 2)
Range2(n) == {i \in 0..(n - 1) : i % 2 = 0}

\* detect_adjacent_pairs stepping by one: every column paired with its successor
detect_overlapping_pairs(df) ==
    [err |-> "none",
     pairs |-> [j \in 1..(IF Len(df) = 0 THEN 0 ELSE Len(df) - 1) |-> <<df[j], df[j + 1]>>]]

\* [(df.columns[i], df.columns[i + 1]) for i in range(0, len(df.columns), 2)]
detect_adjacent_pairs(df) ==
    IF \E i \in Range2(Len(df)) : i + 1 >= Len(df)
    THEN [err |-> "IndexError", pairs |-> <<>>]
    ELSE [err |-> "none",
          pairs |-> [j \in 1..Cardinality(Range2(Len(df))) |->
                        <<df[2 * (j - 1) + 1], df[2 * (j - 1) + 2]>>]]

RECURSIVE PlotPairs(_, _, _)
PlotPairs(lines, pairs, type) ==
    IF pairs = <<>> THEN lines
    ELSE PlotPairs(lines \o Series(Head(pairs)[1], Head(pairs)[2], type), Tail(pairs), type)

\* MplCanvas.__plot_paired
plot_paired(ax, data, type) ==
    LET d == detect_adjacent_pairs(data) IN
    IF d.err # "none" THEN [err |-> d.err, ax |-> ax]
    ELSE [err |-> "none", ax |-> [ax EXCEPT !.lines = PlotPairs(ax.lines, d.pairs, type)]]

RECURSIVE PlotColumns(_, _, _, _)
PlotColumns(lines, x_col, ys, type) ==
    IF ys = <<>> THEN lines
    ELSE PlotColumns(lines \o Series(x_col, Head(ys), type), x_col, Tail(ys), type)

\* __plot_unpaired iterating over data.columns instead of data.columns[1:]
plot_unpaired_all_columns(ax, data, type) ==
    IF Len(data) = 0 THEN [err |-> "IndexError", ax |-> ax]
    ELSE [err |-> "none",
          ax |-> [ax EXCEPT !.lines = PlotColumns(ax.lines, data[1], data, type)]]

\* MplCanvas.__plot_unpaired
plot_unpaired(ax, data, type) ==
    IF Len(data) = 0 THEN [err |-> "IndexError", ax |-> ax]
    ELSE [err |-> "none",
          ax |-> [ax EXCEPT !.lines = PlotColumns(ax.lines, data[1], Tail(data), type)]]

\* format_plot calling ax.grid() without its argument, which toggles the grid
format_plot_toggle_grid(ax, name) ==
    [ax EXCEPT !.title = name, !.xlabel = "X-axis", !.ylabel = "Y-axis",
               !.legend = TRUE, !.grid = ~ax.grid]

\* MplCanvas.format_plot
format_plot(ax, name) ==
    [ax EXCEPT !.title = name, !.xlabel = "X-axis", !.ylabel = "Y-axis",
               !.legend = TRUE, !.grid = TRUE]

\* ------------------------------------------------------------------ layout
MAX_COL == 2

\* NCols without the cap at MAX_COL
NColsUncapped(total_plots) == total_plots

\* min(self.MAX_COL, total_plots)
NCols(total_plots) == IF MAX_COL < total_plots THEN MAX_COL ELSE total_plots

\* NRows rounding down instead of up
NRowsFloor(total_plots, ncols) == total_plots \div ncols

\* (total_plots + ncols - 1) // ncols
NRows(total_plots, ncols) == (total_plots + ncols - 1) \div ncols

\* MplCanvas.__adjust_figure: the new GridSpec and the axes of the figure, the
\* existing ones repositioned and the new one appended
adjust_figure ==
    LET existing_axes == axes
        total_plots == Len(existing_axes) + 1
        ncols == NCols(total_plots)
        nrows == NRows(total_plots, ncols)
        new_gs == [nrows |-> nrows, ncols |-> ncols]
        moved == [k \in 1..Len(existing_axes) |->
                    SetSubplotSpec(existing_axes[k], new_gs,
                                   (k - 1) \div ncols, (k - 1) % ncols)]
    IN [gs |-> new_gs, axes |-> Append(moved, NewAx(new_gs, Len(existing_axes)))]

\* ------------------------------------------------------------------ calls
\* err is the exception the call raised ("none": it returned); ret is the value
\* get_ax returned (the axes, by its index in the figure), 0 for the other calls
Call(op, err, ret) == [op |-> op, err |-> err, ret |-> ret]

\* names a caller passes: the keys of the dict and one name that is not a key
\* (names are opaque keys, so one fresh name stands for all of them)
FreshName == PlotNames[Len(plots) + 1]
CallNames == Keys \cup {FreshName}

Init ==
    /\ gs = [nrows |-> 1, ncols |-> 1]
    /\ axes = <<>>
    /\ plots = <<>>
    /\ last = Call("init", "none", 0)

\* MplCanvas.add_plot
add_plot(plot_name, data, paired, type) ==
    LET fits == gs.ncols * gs.nrows >= Len(plots) + 1
        adj == adjust_figure
        gs1 == IF fits THEN gs ELSE adj.gs
        axes1 == IF fits THEN Append(axes, NewAx(gs, Len(plots))) ELSE adj.axes
        new_ax == Len(axes1)
        r == IF paired THEN plot_paired(axes1[new_ax], data, type)
             ELSE plot_unpaired(axes1[new_ax], data, type)
    IN /\ gs' = gs1
       /\ IF r.err # "none"
          THEN /\ axes' = axes1
               /\ plots' = plots
          ELSE /\ axes' = [axes1 EXCEPT ![new_ax] = format_plot(r.ax, plot_name)]
               /\ plots' = SetItem(plots, DataHolder(plot_name, new_ax, data, paired, type))
       /\ last' = Call("add_plot", r.err, 0)

\* update_plot returning silently when the name is not a key
update_plot_ignore_missing(plot_name, data) ==
    IF plot_name \notin Keys
    THEN /\ last' = Call("update_plot", "none", 0)
         /\ UNCHANGED <<gs, axes, plots>>
    ELSE LET h == plots[IndexOf(plot_name)]
             cleared == Cla(axes[h.ax])
             r == plot_paired(cleared, data, h.type)
         IN /\ UNCHANGED <<gs, plots>>
            /\ IF h.paired
               THEN IF r.err # "none"
                    THEN /\ axes' = [axes EXCEPT ![h.ax] = cleared]
                         /\ last' = Call("update_plot", r.err, 0)
                    ELSE /\ axes' = [axes EXCEPT ![h.ax] = format_plot(r.ax, plot_name)]
                         /\ last' = Call("update_plot", "TypeError", 0)
               ELSE /\ axes' = [axes EXCEPT ![h.ax] = cleared]
                    /\ last' = Call("update_plot", "AttributeError", 0)

\* update_plot taking the axes at the name's position in the dict instead of the
\* axes the entry is bound to
update_plot_by_position(plot_name, data) ==
    IF plot_name \notin Keys
    THEN /\ last' = Call("update_plot", "KeyError", 0)
         /\ UNCHANGED <<gs, axes, plots>>
    ELSE LET h == plots[IndexOf(plot_name)]
             k == IndexOf(plot_name)
             cleared == Cla(axes[k])
             r == plot_paired(cleared, data, h.type)
         IN /\ UNCHANGED <<gs, plots>>
            /\ IF h.paired
               THEN IF r.err # "none"
                    THEN /\ axes' = [axes EXCEPT ![k] = cleared]
                         /\ last' = Call("update_plot", r.err, 0)
                    ELSE /\ axes' = [axes EXCEPT ![k] = format_plot(r.ax, plot_name)]
                         /\ last' = Call("update_plot", "TypeError", 0)
               ELSE /\ axes' = [axes EXCEPT ![k] = cleared]
                    /\ last' = Call("update_plot", "AttributeError", 0)

\* MplCanvas.update_plot
update_plot(plot_name, data) ==
    IF plot_name \notin Keys
    THEN /\ last' = Call("update_plot", "KeyError", 0)
         /\ UNCHANGED <<gs, axes, plots>>
    ELSE LET h == plots[IndexOf(plot_name)]
             cleared == Cla(axes[h.ax])
             r == plot_paired(cleared, data, h.type)
         IN /\ UNCHANGED <<gs, plots>>
            /\ IF h.paired
               THEN IF r.err # "none"
                    THEN /\ axes' = [axes EXCEPT ![h.ax] = cleared]
                         /\ last' = Call("update_plot", r.err, 0)
                    \* ax.draw() is called without the renderer it requires
                    ELSE /\ axes' = [axes EXCEPT ![h.ax] = format_plot(r.ax, plot_name)]
                         /\ last' = Call("update_plot", "TypeError", 0)
               \* self.__plot_series is not a method of MplCanvas
               ELSE /\ axes' = [axes EXCEPT ![h.ax] = cleared]
                    /\ last' = Call("update_plot", "AttributeError", 0)

\* get_ax returning the axes at the name's position in the dict
get_ax_by_position(name) ==
    /\ UNCHANGED <<gs, axes, plots>>
    /\ IF name \notin Keys
       THEN last' = Call("get_ax", "KeyError", 0)
       ELSE last' = Call("get_ax", "none", IndexOf(name))

\* MplCanvas.get_ax
get_ax(name) ==
    /\ UNCHANGED <<gs, axes, plots>>
    /\ IF name \notin Keys
       THEN last' = Call("get_ax", "KeyError", 0)
       ELSE last' = Call("get_ax", "none", plots[IndexOf(name)].ax)

\* Spec: every operation, on a grid of up to MaxAxes axes, with one-column and
\* two-column tables (a paired render of the former raises)
AddPlot ==
    /\ Len(axes) < MaxAxes
    /\ \E name \in CallNames, data \in GridTables, paired \in BOOLEAN, type \in GridTypes :
           add_plot(name, data, paired, type)

UpdatePlot == \E name \in CallNames, data \in GridTables : update_plot(name, data)

GetAx == \E name \in CallNames : get_ax(name)

Next == AddPlot \/ UpdatePlot \/ GetAx

Spec == Init /\ [][Next]_vars

\* SpecGrow: add_plot alone, far enough for the grid to reach three rows
GrowAddPlot ==
    /\ Len(axes) < MaxGrowAxes
    /\ \E name \in CallNames, data \in GridTables, paired \in BOOLEAN, type \in GridTypes :
           add_plot(name, data, paired, type)

NextGrow == GrowAddPlot

SpecGrow == Init /\ [][NextGrow]_vars

\* SpecRender: every operation, with tables of 0..MaxCols columns in both
\* pairing modes and both styles
RenderAddPlot ==
    /\ Len(axes) < MaxRenderAxes
    /\ \E name \in CallNames, data \in Tables, paired \in BOOLEAN, type \in Types :
           add_plot(name, data, paired, type)

RenderUpdatePlot == \E name \in CallNames, data \in Tables : update_plot(name, data)

NextRender == RenderAddPlot \/ RenderUpdatePlot \/ GetAx

SpecRender == Init /\ [][NextRender]_vars

\* a caller's self.canvas.format_plot(ax, name) on the i-th axes of the figure
format_plot_call(i, name) ==
    /\ axes' = [axes EXCEPT ![i] = format_plot(axes[i], name)]
    /\ UNCHANGED <<gs, plots>>
    /\ last' = Call("format_plot", "none", 0)

\* SpecFormat: add_plot and update_plot as in Spec, and format_plot called on
\* any axes of the figure under any name
FormatAddPlot ==
    /\ Len(axes) < MaxFormatAxes
    /\ \E name \in CallNames, data \in GridTables, paired \in BOOLEAN, type \in GridTypes :
           add_plot(name, data, paired, type)

FormatPlot == \E i \in 1..Len(axes), name \in CallNames : format_plot_call(i, name)

NextFormat == FormatAddPlot \/ UpdatePlot \/ FormatPlot

SpecFormat == Init /\ [][NextFormat]_vars

\* ------------------------------------------------------------------ window
\* what the user can answer to the dialogs of MainWindow (Interface.py)
FileNames == {"", "data.csv"}           \* getOpenFileName: "" when cancelled
TitleTexts == {""} \cup CallNames       \* getText: the line edit may be left empty
PairedItems == {"Yes", "No"}
TypeItems == {"Straight Line", "Scatter"}

\* MainWindow.new_plot and MainWindow.__parse_data: one click on "add plot",
\* with the answers to the file dialog, the title dialog (text, ok) and the two
\* item dialogs; df is the table read from the file
new_plot(file_name, df, text, ok, paired_item, type_item) ==
    IF file_name = "" \/ ~ok
    THEN /\ last' = Call("new_plot", "none", 0)
         /\ UNCHANGED <<gs, axes, plots>>
    ELSE add_plot(text, df, paired_item = "Yes",
                  IF type_item = "Straight Line" THEN 0 ELSE 1)

\* SpecWindow: the canvas driven through the window only
NewPlotClick ==
    /\ Len(axes) < MaxWindowAxes
    /\ \E file_name \in FileNames, df \in GridTables, text \in TitleTexts, ok \in BOOLEAN,
          paired_item \in PairedItems, type_item \in TypeItems :
           new_plot(file_name, df, text, ok, paired_item, type_item)

NextWindow == NewPlotClick

SpecWindow == Init /\ [][NextWindow]_vars

TypeOK ==
    /\ gs.nrows >= 1 /\ gs.ncols \in 1..MAX_COL
    /\ \A i \in 1..Len(plots) : plots[i].ax \in 1..Len(axes)
    /\ \A i, j \in 1..Len(plots) : plots[i].name = plots[j].name => i = j

\* ------------------------------------------------------------------ claims
\* Every add_plot call creates one axes, and adds a key to the dict only when it
\* returns and its name is new: the two lengths agree exactly when every
\* add_plot call so far has returned and the names were pairwise distinct.
AllAddsStored == Len(axes) = Len(plots)

\* the axes a dict entry is bound to
AxOf(i) == axes[plots[i].ax]

\* C1: after N >= 1 successful add_plot calls with pairwise distinct names on a
\* fresh canvas, ncols = min(2, N) and nrows = ceil(N / ncols), i.e. nrows is the
\* least number of rows of ncols cells that hold N plots; 3 and 4 plots give
\* 2x2, 5 plots give 3 rows of 2.
C1_LayoutAfterNAdds ==
    (AllAddsStored /\ Len(plots) >= 1) =>
        LET N == Len(plots) IN
        /\ gs.ncols = (IF N < 2 THEN N ELSE 2)
        /\ gs.nrows * gs.ncols >= N
        /\ (gs.nrows - 1) * gs.ncols < N
        /\ (N \in {3, 4} => gs = [nrows |-> 2, ncols |-> 2])
        /\ (N = 5 => gs = [nrows |-> 3, ncols |-> 2])

C1_Witness ==
    /\ AllAddsStored
    /\ Len(plots) = 5
    /\ gs = [nrows |-> 3, ncols |-> 2]
    /\ last = Call("add_plot", "none", 0)

\* C2: once an add_plot call has returned, the figure holds exactly one axes per
\* entry of the dict, and no two axes occupy the same grid cell.
C2_OneRegionPerSlot ==
    (last.op = "add_plot" /\ last.err = "none") =>
        /\ Len(axes) = Len(plots)
        /\ \A i, j \in 1..Len(axes) : axes[i].num = axes[j].num => i = j

\* C3: while every add_plot call has returned and the names were distinct, the
\* entry with insertion index i is bound to the axes at row i div ncols, column
\* i mod ncols of the current GridSpec, also after the grid has been regrown.
C3_RowMajorBinding ==
    AllAddsStored =>
        \A i \in 1..Len(plots) :
            /\ AxOf(i).nrows = gs.nrows
            /\ AxOf(i).ncols = gs.ncols
            /\ RowOf(AxOf(i)) = (i - 1) \div gs.ncols
            /\ ColOf(AxOf(i)) = (i - 1) % gs.ncols

\* five plots, the first of which was placed when the grid was 1x1: the second
\* sits at (0, 1), the third at (1, 0), the fifth at (2, 0)
C3_Witness ==
    /\ AllAddsStored
    /\ Len(plots) = 5
    /\ gs.ncols = 2
    /\ RowOf(AxOf(2)) = 0 /\ ColOf(AxOf(2)) = 1
    /\ RowOf(AxOf(3)) = 1 /\ ColOf(AxOf(3)) = 0
    /\ RowOf(AxOf(5)) = 2 /\ ColOf(AxOf(5)) = 0

\* C4: between calls of add_plot, update_plot and get_ax, whatever their names
\* and outcomes, the grid has at least as many cells as the dict has entries and
\* at most MAX_COL columns.
C4_CapacityCoversSlots ==
    /\ gs.nrows * gs.ncols >= Len(plots)
    /\ gs.ncols <= MAX_COL

\* a full 2-row grid after a call that raised
C4_Witness ==
    /\ Len(plots) = 3
    /\ gs = [nrows |-> 2, ncols |-> 2]
    /\ last.err # "none"

\* C5: add_plot under a name that is already a key keeps the number of entries,
\* replaces the entry's table, pairing mode and style by the arguments, adds no
\* axes to the figure and leaves the entry bound to the axes it had.
C5_OverwriteKeepsRegion ==
    [][\A name \in Keys, data \in GridTables, paired \in BOOLEAN, type \in GridTypes :
        (add_plot(name, data, paired, type) /\ last'.err = "none") =>
            /\ Len(plots') = Len(plots)
            /\ plots'[IndexOf(name)].name = name
            /\ plots'[IndexOf(name)].data = data
            /\ plots'[IndexOf(name)].paired = paired
            /\ plots'[IndexOf(name)].type = type
            /\ Len(axes') = Len(axes)
            /\ plots'[IndexOf(name)].ax = plots[IndexOf(name)].ax]_vars

\* C6: an add_plot call that raises leaves the GridSpec, the axes of the figure
\* and the dict as they were before the call.
C6_FailedAddChangesNothing ==
    [][(last'.op = "add_plot" /\ last'.err # "none") =>
        (gs' = gs /\ axes' = axes /\ plots' = plots)]_vars

\* C7: add_plot with a table of fewer than 2 columns, in either pairing mode and
\* style, raises and leaves the GridSpec, the axes and the dict unchanged.
C7_NarrowTableRejected ==
    [][\A name \in CallNames, data \in Tables, paired \in BOOLEAN, type \in Types :
        (Len(data) < 2 /\ add_plot(name, data, paired, type)) =>
            /\ last'.err # "none"
            /\ gs' = gs /\ axes' = axes /\ plots' = plots]_vars

\* the axes add_plot has just created
NewLines == axes'[Len(axes')].lines

\* C8: a paired render of a table with an odd number n >= 3 of columns returns
\* and draws exactly (n - 1) / 2 series, columns (0, 1), (2, 3), ..., none for
\* the last column.
C8_OddPairedDropsLast ==
    [][\A name \in CallNames, data \in Tables, type \in Types :
        (Len(data) >= 3 /\ Len(data) % 2 = 1 /\ add_plot(name, data, TRUE, type)) =>
            /\ last'.err = "none"
            /\ Len(NewLines) = (Len(data) - 1) \div 2
            /\ \A j \in 0..(Len(NewLines) - 1) :
                   /\ NewLines[j + 1].x = data[2 * j + 1]
                   /\ NewLines[j + 1].y = data[2 * j + 2]]_vars

\* C9: a paired render of a table with 2k columns, k >= 1, draws exactly k
\* series in column order, the j-th with X = column 2j, Y = column 2j + 1 and
\* label "<X> vs <Y>"; [A, B, C, D] gives "A vs B" and "C vs D".
C9_EvenPairedSeries ==
    [][\A name \in CallNames, data \in Tables, type \in Types :
        (Len(data) >= 2 /\ Len(data) % 2 = 0 /\ add_plot(name, data, TRUE, type)) =>
            /\ last'.err = "none"
            /\ 2 * Len(NewLines) = Len(data)
            /\ \A j \in 0..(Len(NewLines) - 1) :
                   /\ NewLines[j + 1].x = data[2 * j + 1]
                   /\ NewLines[j + 1].y = data[2 * j + 2]
                   /\ NewLines[j + 1].label = data[2 * j + 1] \o " vs " \o data[2 * j + 2]
            /\ data = <<"A", "B", "C", "D">> =>
                   /\ Len(NewLines) = 2
                   /\ NewLines[1].label = "A vs B"
                   /\ NewLines[2].label = "C vs D"]_vars

\* a paired four-column table has just been rendered as two series
C9_Witness ==
    /\ last = Call("add_plot", "none", 0)
    /\ \E i \in 1..Len(plots) :
           /\ plots[i].ax = Len(axes)
           /\ plots[i].paired
           /\ plots[i].data = <<"A", "B", "C", "D">>
           /\ Len(AxOf(i).lines) = 2

ExpectedKind(type) == IF type = 0 THEN "line" ELSE "scatter"

ExpectedLines(data, paired, type) ==
    IF paired
    THEN [j \in 1..(Len(data) \div 2) |->
            [x |-> data[2 * j - 1], y |-> data[2 * j],
             label |-> data[2 * j - 1] \o " vs " \o data[2 * j], kind |-> ExpectedKind(type)]]
    ELSE [j \in 1..(Len(data) - 1) |->
            [x |-> data[1], y |-> data[j + 1],
             label |-> data[1] \o " vs " \o data[j + 1], kind |-> ExpectedKind(type)]]

\* C11: update_plot of an existing slot, paired or unpaired, with a table of at
\* least 2 columns leaves the slot's region showing exactly the series its
\* stored pairing mode produces from the new table, in its stored style.
C11_UpdateRerenders ==
    [][\A name \in Keys, data \in Tables :
        (Len(data) >= 2 /\ update_plot(name, data)) =>
            LET h == plots[IndexOf(name)] IN
            axes'[h.ax].lines = ExpectedLines(data, h.paired, h.type)]_vars

\* C12: a slot's stored table is the table its region was last rendered from:
\* the table passed to add_plot, then the table passed to a later update_plot.
C12_StoredTableIsLastRendered ==
    [][/\ \A name \in CallNames, data \in Tables, paired \in BOOLEAN, type \in Types :
            (add_plot(name, data, paired, type) /\ last'.err = "none") =>
                \E i \in 1..Len(plots') : plots'[i].name = name /\ plots'[i].data = data
       /\ \A name \in Keys, data \in Tables :
            (Len(data) >= 2 /\ update_plot(name, data)) =>
                plots'[IndexOf(name)].data = data]_vars

\* C13: update_plot under a name that is not a key raises KeyError and changes
\* nothing: no axes is cleared or re-rendered, and the GridSpec and the dict
\* are as before the call.
C13_UpdateUnknownName ==
    [][\A name \in CallNames \ Keys, data \in GridTables :
        update_plot(name, data) =>
            /\ last'.err = "KeyError"
            /\ gs' = gs /\ axes' = axes /\ plots' = plots]_vars

\* update_plot has just raised KeyError on a canvas that holds rendered plots
C13_Witness ==
    /\ last = Call("update_plot", "KeyError", 0)
    /\ Len(plots) >= 2
    /\ \E i \in 1..Len(plots) : AxOf(i).lines # <<>>

\* C14: get_ax returns the axes bound to the name when the name is a key and
\* raises KeyError when it is not; either way the GridSpec, the axes and the
\* dict are unchanged.
C14_GetAx ==
    [][\A name \in CallNames :
        get_ax(name) =>
            /\ gs' = gs /\ axes' = axes /\ plots' = plots
            /\ name \in Keys =>
                   /\ last'.err = "none"
                   /\ \E i \in 1..Len(plots) : plots[i].name = name /\ plots[i].ax = last'.ret
            /\ name \notin Keys => last'.err = "KeyError"]_vars

\* get_ax has just returned the axes of a slot whose axes is not the one at the
\* slot's position in the dict
C14_Witness ==
    /\ last.op = "get_ax" /\ last.err = "none"
    /\ \E i \in 1..Len(plots) : plots[i].ax = last.ret /\ i # last.ret

\* an axes carries the formatting format_plot gives it under a name
Formatted(ax, name) ==
    /\ ax.title = name
    /\ ax.xlabel = "X-axis" /\ ax.ylabel = "Y-axis"
    /\ ax.legend /\ ax.grid

\* C15: format_plot sets title = name, the labels "X-axis" and "Y-axis", the
\* legend and the grid on, and applied to an axes that format_plot has already
\* formatted under the same name it leaves the axes exactly as it was.
C15_FormatIdempotent ==
    [][\A i \in 1..Len(axes), name \in CallNames :
        format_plot_call(i, name) =>
            /\ Formatted(axes'[i], name)
            /\ axes'[i].lines = axes[i].lines
            /\ Formatted(axes[i], name) => axes' = axes]_vars

\* format_plot has just been applied, under the plot's name, to the only axes,
\* which add_plot had rendered and formatted under that name
C15_Witness ==
    /\ last.op = "format_plot"
    /\ Len(axes) = 1 /\ Len(plots) = 1
    /\ axes[1].lines # <<>>
    /\ Formatted(axes[1], plots[1].name)

\* C16: whatever the user answers to the file, title, paired and style dialogs,
\* a click that gets as far as calling add_plot passes it a non-empty name.
C16_WindowPassesNonEmptyName ==
    [][\A file_name \in FileNames, df \in GridTables, text \in TitleTexts, ok \in BOOLEAN,
          paired_item \in PairedItems, type_item \in TypeItems :
        (new_plot(file_name, df, text, ok, paired_item, type_item) /\ last'.op = "add_plot")
            => text # ""]_vars

\* the grid cell of an axes: its GridSpec's dimensions and its index in it
CellOf(ax) == <<ax.nrows, ax.ncols, ax.num>>

Capacity(g) == g.nrows * g.ncols

\* C17: add_plot called when nrows * ncols >= len(plots) + 1 reuses the layout:
\* the GridSpec is unchanged and every entry that existed stays bound to the
\* same axes at the same cell; the only additions are the new axes and the
\* stored entry.
C17_ReuseKeepsBindings ==
    [][\A name \in CallNames, data \in GridTables, paired \in BOOLEAN, type \in GridTypes :
        (Capacity(gs) >= Len(plots) + 1 /\ add_plot(name, data, paired, type)) =>
            /\ gs' = gs
            /\ Len(axes') = Len(axes) + 1
            /\ \A k \in 1..Len(axes) : axes'[k] = axes[k]
            /\ \A i \in 1..Len(plots) :
                   /\ plots'[i].name = plots[i].name
                   /\ plots'[i].ax = plots[i].ax
                   /\ CellOf(axes'[plots'[i].ax]) = CellOf(axes[plots[i].ax])]_vars

\* C18: update_plot of an existing slot leaves unchanged the GridSpec, the
\* names of the dict and their order, every entry's axes and that axes' cell,
\* the updated entry's pairing mode and style, and the content of the axes of
\* every other entry.
C18_UpdateFrame ==
    [][\A name \in Keys, data \in GridTables :
        update_plot(name, data) =>
            /\ gs' = gs
            /\ Len(plots') = Len(plots)
            /\ Len(axes') = Len(axes)
            /\ \A k \in 1..Len(axes) : CellOf(axes'[k]) = CellOf(axes[k])
            /\ \A i \in 1..Len(plots) :
                   /\ plots'[i].name = plots[i].name
                   /\ plots'[i].ax = plots[i].ax
                   /\ plots'[i].paired = plots[i].paired
                   /\ plots'[i].type = plots[i].type
                   /\ plots[i].name # name => axes'[plots[i].ax] = axes[plots[i].ax]]_vars

\* update_plot has just cleared the axes of one slot, next to a slot whose axes
\* still shows its series
C18_Witness ==
    /\ last.op = "update_plot" /\ last.err # "KeyError"
    /\ \E i, j \in 1..Len(plots) :
           /\ AxOf(i).lines = <<>> /\ AxOf(i).title = ""
           /\ AxOf(j).lines # <<>>

\* C19: the layout never shrinks: ncols and nrows * ncols never decrease, and a
\* relayout by add_plot (called when nrows * ncols < len(plots) + 1) gives a
\* capacity greater than before and at least the number of axes the figure
\* held before the call plus one.
C19_LayoutNeverShrinks ==
    [][/\ gs'.ncols >= gs.ncols
       /\ Capacity(gs') >= Capacity(gs)
       /\ (last'.op = "add_plot" /\ Capacity(gs) < Len(plots) + 1) =>
              /\ Capacity(gs') > Capacity(gs)
              /\ Capacity(gs') >= Len(axes) + 1]_vars

\* the third add_plot call has just regrown the grid to 2x2
C19_Witness ==
    /\ last.op = "add_plot"
    /\ Len(axes) = 3
    /\ gs = [nrows |-> 2, ncols |-> 2]

\* C20: every axes of the figure, bound to a slot or not, sits in a cell of the
\* current GridSpec (its index is below nrows * ncols), and every entry of the
\* dict is bound to an axes of the figure.
C20_RegionsInsideLayout ==
    /\ \A k \in 1..Len(axes) :
           /\ axes[k].nrows = gs.nrows /\ axes[k].ncols = gs.ncols
           /\ axes[k].num >= 0 /\ axes[k].num < Capacity(gs)
    /\ \A i \in 1..Len(plots) : plots[i].ax \in 1..Len(axes)

\* a regrown 2x2 grid holding an axes that no slot is bound to
C20_Witness ==
    /\ Len(axes) = 3
    /\ Len(plots) < 3
    /\ gs = [nrows |-> 2, ncols |-> 2]
    /\ \E k \in 1..Len(axes) : \A i \in 1..Len(plots) : plots[i].ax # k
====
